---- MODULE Spec2Model ----
(***************************************************************************)
(* A model of lib/layer_utils.py: the layer library (VanillaRNN, LSTM,     *)
(* word_embedding, temporal_fc, temporal_softmax_loss) and the RNN network *)
(* container that flattens the layers' params/grads into one registry.     *)
(*                                                                         *)
(* Tensors.  The batch, feature and hidden dimensions are 1 (N = D = H =   *)
(* M = 1); the time dimension T and the vocabulary size V vary.  A tensor  *)
(* is a non-empty tuple of integers: a (N,T,.) array is the tuple of its T *)
(* timesteps, a (V,D) embedding table the tuple of its V rows, an LSTM     *)
(* (.,4H) array the tuple of its four gate columns, anything else a        *)
(* 1-tuple.  Python's None is the empty tuple; a layer's meta, which is    *)
(* None, a list or the empty list, carries an isNone flag beside its list. *)
(* Rebinding a dict entry (d[n] = v) is modelled as such: the two dicts    *)
(* that held the same array hold different values afterwards.              *)
(*                                                                         *)
(* Numerics.  numpy's real-valued tanh and the logistic sigmoid have no    *)
(* integer counterpart; they are replaced by their integer saturations     *)
(* (sign, and the x >= 0 step).  Everything built on them (products, sums, *)
(* the order of the steps, what is stored where) is the code's.            *)
(*                                                                         *)
(* The dict iteration methods are Python 2's (iteritems), as the source    *)
(* uses them.                                                              *)
(***************************************************************************)
EXTENDS Integers, Sequences, FiniteSets, TLC

VARIABLES layers, net, loss, ret, nops

vars == <<layers, net, loss, ret, nops>>

\* ------------------------------------------------------------------ bounds
\* Longest time series (T) fed to a forward pass.
MaxT == 2
\* Largest vocabulary (rows of an embedding table).
MaxVoc == 2
\* Most layers handed to the container's constructor.
MaxLayers == 2
\* Most state-changing calls after the layers (and the container) are built.
MaxOps == 2
\* Most forward/backward/loss calls on a single layer or loss unit.
MaxCalls == 3

None == <<>>

\* ---------------------------------------------------------------- numerics
\* np.tanh, saturated to the integers.
tanh(z) == IF z > 0 THEN 1 ELSE IF z < 0 THEN -1 ELSE 0

\* sigmoid: the x >= 0 branch is top = 1, the x < 0 branch top = exp(x).
sigmoid(z) == IF z >= 0 THEN 1 ELSE 0

sigmoid_derivative(values) == values * (1 - values)

RECURSIVE SumSeq(_)
SumSeq(s) == IF s = <<>> THEN 0 ELSE Head(s) + SumSeq(Tail(s))

\* np.zeros(n)
zeros(n) == [k \in 1..n |-> 0]

\* ------------------------------------------------------------- VanillaRNN
VanillaRNN(name, wx, wh) ==
    [kind   |-> "VanillaRNN",
     name   |-> name,
     params |-> ((name \o "_wx") :> <<wx>>) @@ ((name \o "_wh") :> <<wh>>)
                    @@ ((name \o "_b") :> zeros(1)),
     grads  |-> ((name \o "_wx") :> None) @@ ((name \o "_wh") :> None)
                    @@ ((name \o "_b") :> None),
     meta   |-> [isNone |-> TRUE, v |-> <<>>]]

wx_name(l) == l.name \o "_wx"
wh_name(l) == l.name \o "_wh"
b_name(l) == l.name \o "_b"
w_name(l) == l.name \o "_w"

rnn_step_forward(l, x, prev_h) ==
    LET next_h == tanh(x * l.params[wx_name(l)][1] + prev_h * l.params[wh_name(l)][1]
                         + l.params[b_name(l)][1])
    IN  [next_h |-> next_h, meta |-> [x |-> x, prev_h |-> prev_h, next_h |-> next_h]]

rnn_step_backward(l, dnext_h, meta) ==
    LET dtanh == dnext_h * (1 - meta.next_h * meta.next_h)
    IN  [dx      |-> dtanh * l.params[wx_name(l)][1],
         dprev_h |-> dtanh * l.params[wh_name(l)][1],
         dWx     |-> meta.x * dtanh,
         dWh     |-> meta.prev_h * dtanh,
         db      |-> dtanh]

\* The loop of forward: timestep i consumes the hidden state of i-1.
RECURSIVE rnn_forward_loop(_, _, _, _, _, _)
rnn_forward_loop(l, x, i, prev_h, h, meta) ==
    IF i > Len(x) THEN [h |-> h, meta |-> meta]
    ELSE LET s == rnn_step_forward(l, x[i], prev_h)
         IN  rnn_forward_loop(l, x, i + 1, s.next_h, Append(h, s.next_h),
                              Append(meta, s.meta))

\* forward(x, h0): the layer afterwards, and the returned h.
rnn_forward(l, x, h0) ==
    LET r == rnn_forward_loop(l, x, 1, h0, <<>>, <<>>)
    IN  [layer |-> [l EXCEPT !.meta = [isNone |-> FALSE, v |-> r.meta]],
         out   |-> [err |-> "", h |-> r.h]]

\* The loop of backward, timesteps T-1 .. 0 (here i = T .. 1); st carries
\* dnext_h, dx, dh0, the three accumulated gradients and the calls made.
\* rnn_backward_loop with the slip dh[:, i, :] for dh[:, i-1, :].
RECURSIVE rnn_backward_loop_same_step(_, _, _, _)
rnn_backward_loop_same_step(l, dh, i, st) ==
    IF i < 1 THEN st
    ELSE LET s == rnn_step_backward(l, st.dnext_h, l.meta.v[i])
         IN  rnn_backward_loop_same_step(l, dh, i - 1,
               [dnext_h |-> IF i = 1 THEN st.dnext_h ELSE s.dprev_h + dh[i],
                dx      |-> [st.dx EXCEPT ![i] = s.dx],
                dh0     |-> IF i = 1 THEN s.dprev_h ELSE st.dh0,
                gwx     |-> st.gwx + s.dWx,
                gwh     |-> st.gwh + s.dWh,
                gb      |-> st.gb + s.db,
                calls   |-> Append(st.calls, [t |-> i - 1, dnext_h |-> st.dnext_h,
                                              dnext_c |-> 0, meta |-> l.meta.v[i],
                                              out |-> s])])

RECURSIVE rnn_backward_loop(_, _, _, _)
rnn_backward_loop(l, dh, i, st) ==
    IF i < 1 THEN st
    ELSE LET s == rnn_step_backward(l, st.dnext_h, l.meta.v[i])
         IN  rnn_backward_loop(l, dh, i - 1,
               [dnext_h |-> IF i = 1 THEN st.dnext_h ELSE s.dprev_h + dh[i - 1],
                dx      |-> [st.dx EXCEPT ![i] = s.dx],
                dh0     |-> IF i = 1 THEN s.dprev_h ELSE st.dh0,
                gwx     |-> st.gwx + s.dWx,
                gwh     |-> st.gwh + s.dWh,
                gb      |-> st.gb + s.db,
                calls   |-> Append(st.calls, [t |-> i - 1, dnext_h |-> st.dnext_h,
                                              dnext_c |-> 0, meta |-> l.meta.v[i],
                                              out |-> s])])

\* backward(dh): line 193 rebinds the three gradients to None before meta is
\* read, so a call that fails on meta leaves them None.
rnn_backward(l, dh) ==
    LET cleared == [l EXCEPT !.grads = [n \in DOMAIN l.grads |-> None]]
        T == Len(dh)
        r == rnn_backward_loop(l, dh, T,
               [dnext_h |-> dh[T], dx |-> zeros(T), dh0 |-> 0,
                gwx |-> 0, gwh |-> 0, gb |-> 0, calls |-> <<>>])
    IN  IF l.meta.isNone
        THEN [layer |-> cleared, out |-> [err |-> "TypeError"]]
        ELSE IF l.meta.v = <<>>
        THEN [layer |-> cleared, out |-> [err |-> "IndexError"]]
        ELSE [layer |-> [l EXCEPT !.grads = (wx_name(l) :> <<r.gwx>>)
                                      @@ (wh_name(l) :> <<r.gwh>>)
                                      @@ (b_name(l) :> <<r.gb>>),
                                  !.meta = [isNone |-> FALSE, v |-> <<>>]],
              out   |-> [err |-> "", dx |-> r.dx, dh0 |-> r.dh0, calls |-> r.calls]]

\* ------------------------------------------------------------------- LSTM
\* The (., 4H) arrays are the 4-tuples of their gate columns, in the order
\* input, forget, output, new memory.
LSTM(name, wx, wh) ==
    [kind   |-> "LSTM",
     name   |-> name,
     params |-> ((name \o "_wx") :> wx) @@ ((name \o "_wh") :> wh)
                    @@ ((name \o "_b") :> zeros(4)),
     grads  |-> ((name \o "_wx") :> None) @@ ((name \o "_wh") :> None)
                    @@ ((name \o "_b") :> None),
     meta   |-> [isNone |-> TRUE, v |-> <<>>]]

lstm_step_forward(l, x, prev_h, prev_c) ==
    LET A   == [k \in 1..4 |-> x * l.params[wx_name(l)][k]
                                 + prev_h * l.params[wh_name(l)][k]
                                 + l.params[b_name(l)][k]]
        i_t == sigmoid(A[1])
        f_t == sigmoid(A[2])
        o_t == sigmoid(A[3])
        g_t == tanh(A[4])
        c_t == f_t * prev_c + i_t * g_t
        h_t == o_t * tanh(c_t)
    IN  [next_h |-> h_t, next_c |-> c_t,
         meta |-> [x |-> x, prev_h |-> prev_h, next_h |-> h_t, prev_c |-> prev_c,
                   i_t |-> i_t, f_t |-> f_t, c_t |-> c_t, o_t |-> o_t, g_t |-> g_t]]

lstm_step_backward(l, dnext_h, dnext_c, meta) ==
    LET dh   == dnext_h
        dc_t == dh * meta.o_t * (1 - tanh(meta.c_t) * tanh(meta.c_t)) + dnext_c
        do_t == tanh(meta.c_t) * dh * sigmoid_derivative(meta.o_t)
        dg_t == dc_t * meta.i_t * (1 - meta.g_t * meta.g_t)
        df_t == dc_t * meta.prev_c * sigmoid_derivative(meta.f_t)
        di_t == dc_t * meta.g_t * sigmoid_derivative(meta.i_t)
        gate == <<di_t, df_t, do_t, dg_t>>
        Wx   == l.params[wx_name(l)]
        Wh   == l.params[wh_name(l)]
    IN  [dx      |-> SumSeq([k \in 1..4 |-> gate[k] * Wx[k]]),
         dprev_h |-> SumSeq([k \in 1..4 |-> gate[k] * Wh[k]]),
         dprev_c |-> dc_t * meta.f_t,
         dWx     |-> [k \in 1..4 |-> meta.x * gate[k]],
         dWh     |-> [k \in 1..4 |-> meta.prev_h * gate[k]],
         db      |-> gate]

RECURSIVE lstm_forward_loop(_, _, _, _, _, _, _)
lstm_forward_loop(l, x, i, prev_h, prev_c, h, meta) ==
    IF i > Len(x) THEN [h |-> h, meta |-> meta]
    ELSE LET s == lstm_step_forward(l, x[i], prev_h, prev_c)
         IN  lstm_forward_loop(l, x, i + 1, s.next_h, s.next_c, Append(h, s.next_h),
                               Append(meta, s.meta))

\* forward(x, h0): c0 = zeros_like(h0); only h is returned.
lstm_forward(l, x, h0) ==
    LET r == lstm_forward_loop(l, x, 1, h0, 0, <<>>, <<>>)
    IN  [layer |-> [l EXCEPT !.meta = [isNone |-> FALSE, v |-> r.meta]],
         out   |-> [err |-> "", h |-> r.h]]

AddSeq(a, b) == [k \in DOMAIN a |-> a[k] + b[k]]

RECURSIVE lstm_backward_loop(_, _, _, _)
lstm_backward_loop(l, dh, i, st) ==
    IF i < 1 THEN st
    ELSE LET s == lstm_step_backward(l, st.dnext_h, st.dnext_c, l.meta.v[i])
         IN  lstm_backward_loop(l, dh, i - 1,
               [dnext_h |-> IF i = 1 THEN st.dnext_h ELSE s.dprev_h + dh[i - 1],
                dnext_c |-> s.dprev_c,
                dx      |-> [st.dx EXCEPT ![i] = s.dx],
                dh0     |-> IF i = 1 THEN s.dprev_h ELSE st.dh0,
                gwx     |-> AddSeq(st.gwx, s.dWx),
                gwh     |-> AddSeq(st.gwh, s.dWh),
                gb      |-> AddSeq(st.gb, s.db),
                calls   |-> Append(st.calls, [t |-> i - 1, dnext_h |-> st.dnext_h,
                                              dnext_c |-> st.dnext_c,
                                              meta |-> l.meta.v[i], out |-> s])])

\* backward(dh): meta[0] is read (line 430) before any gradient is touched.
lstm_backward(l, dh) ==
    LET T == Len(dh)
        r == lstm_backward_loop(l, dh, T,
               [dnext_h |-> dh[T], dnext_c |-> 0, dx |-> zeros(T), dh0 |-> 0,
                gwx |-> zeros(4), gwh |-> zeros(4), gb |-> zeros(4), calls |-> <<>>])
    IN  IF l.meta.isNone
        THEN [layer |-> l, out |-> [err |-> "TypeError"]]
        ELSE IF l.meta.v = <<>>
        THEN [layer |-> l, out |-> [err |-> "IndexError"]]
        ELSE [layer |-> [l EXCEPT !.grads = (wx_name(l) :> r.gwx)
                                      @@ (wh_name(l) :> r.gwh)
                                      @@ (b_name(l) :> r.gb),
                                  !.meta = [isNone |-> FALSE, v |-> <<>>]],
              out   |-> [err |-> "", dx |-> r.dx, dh0 |-> r.dh0, calls |-> r.calls]]

\* ---------------------------------------------------------- word_embedding
\* table: the (V, D) matrix as the tuple of its V rows.
word_embedding(name, table) ==
    [kind   |-> "word_embedding",
     name   |-> name,
     voc_dim |-> Len(table),
     params |-> ((name \o "_w") :> table),
     grads  |-> ((name \o "_w") :> None),
     meta   |-> [isNone |-> TRUE, v |-> <<>>]]

\* forward(x): x the word indices, 0 <= idx < V; out = W[x, :].
we_forward(l, x) ==
    LET out == [p \in DOMAIN x |-> l.params[w_name(l)][x[p] + 1]]
    IN  [layer |-> [l EXCEPT !.meta = [isNone |-> FALSE, v |-> <<out, x>>]],
         out   |-> [err |-> "", out |-> out]]

\* add_at as the buffered a[x] += dout: the last position of an index wins.
RECURSIVE add_at_buffered(_, _, _, _)
add_at_buffered(a, x, dout, p) ==
    IF p > Len(x) THEN a
    ELSE add_at_buffered([a EXCEPT ![x[p] + 1] = dout[p]], x, dout, p + 1)

\* np.add.at(a, x, dout): unbuffered, one position after the other.
RECURSIVE add_at(_, _, _, _)
add_at(a, x, dout, p) ==
    IF p > Len(x) THEN a
    ELSE add_at([a EXCEPT ![x[p] + 1] = @ + dout[p]], x, dout, p + 1)

\* backward(dout): the gradient is rebound to None (line 510) before meta is
\* unpacked; meta is left as it is.
we_backward(l, dout) ==
    IF l.meta.isNone
    THEN [layer |-> [l EXCEPT !.grads[w_name(l)] = None],
          out   |-> [err |-> "TypeError"]]
    ELSE LET x == l.meta.v[2]
         IN  [layer |-> [l EXCEPT !.grads[w_name(l)] =
                            add_at(zeros(Len(l.params[w_name(l)])), x, dout, 1)],
              out   |-> [err |-> ""]]

\* ------------------------------------------------------------- temporal_fc
temporal_fc(name, w) ==
    [kind   |-> "temporal_fc",
     name   |-> name,
     params |-> ((name \o "_w") :> <<w>>) @@ ((name \o "_b") :> zeros(1)),
     grads  |-> ((name \o "_w") :> None) @@ ((name \o "_b") :> None),
     meta   |-> [isNone |-> TRUE, v |-> <<>>]]

fc_forward(l, x) ==
    LET out == [t \in DOMAIN x |-> x[t] * l.params[w_name(l)][1] + l.params[b_name(l)][1]]
    IN  [layer |-> [l EXCEPT !.meta = [isNone |-> FALSE, v |-> <<x, out>>]],
         out   |-> [err |-> "", out |-> out]]

\* fc_backward adding to the gradients an earlier call left.
fc_backward_accumulating(l, dout) ==
    IF l.meta.isNone
    THEN [layer |-> l, out |-> [err |-> "TypeError"]]
    ELSE LET x == l.meta.v[1]
             old(n) == IF l.grads[n] = None THEN 0 ELSE l.grads[n][1]
         IN  [layer |-> [l EXCEPT
                  !.grads[w_name(l)] =
                      <<old(w_name(l)) + SumSeq([t \in DOMAIN x |-> dout[t] * x[t]])>>,
                  !.grads[b_name(l)] = <<old(b_name(l)) + SumSeq(dout)>>],
              out   |-> [err |-> "",
                         dx |-> [t \in DOMAIN x |-> dout[t] * l.params[w_name(l)][1]]]]

\* backward(dout): meta is unpacked first and never cleared.
fc_backward(l, dout) ==
    IF l.meta.isNone
    THEN [layer |-> l, out |-> [err |-> "TypeError"]]
    ELSE LET x == l.meta.v[1]
         IN  [layer |-> [l EXCEPT
                  !.grads[w_name(l)] = <<SumSeq([t \in DOMAIN x |-> dout[t] * x[t]])>>,
                  !.grads[b_name(l)] = <<SumSeq(dout)>>],
              out   |-> [err |-> "",
                         dx |-> [t \in DOMAIN x |-> dout[t] * l.params[w_name(l)][1]]]]

\* --------------------------------------------------- temporal_softmax_loss
\* __init__: dLoss and label are None; mask is not an attribute yet.
temporal_softmax_loss(dim_average) ==
    [dim_average |-> dim_average, dLoss |-> None, label |-> None, mask |-> None]

Max(S) == CHOOSE m \in S : \A k \in S : k <= m

\* The softmax of one row of scores, saturated to the integers: 1 at the
\* row's largest score(s), 0 elsewhere.
softmax_row(row) ==
    [c \in DOMAIN row |-> IF row[c] = Max({row[k] : k \in DOMAIN row}) THEN 1 ELSE 0]

\* forward(feat, label, mask): stores the probabilities, label and mask.  The
\* returned scalar (a sum of real logarithms) is not represented.
loss_forward(u, feat, label, mask) ==
    [unit |-> [u EXCEPT !.dLoss = [r \in DOMAIN feat |-> softmax_row(feat[r])],
                        !.label = label, !.mask = mask],
     out  |-> [err |-> ""]]

\* backward(): label.shape is read (line 616) before dLoss is tested (line
\* 618); the stored dLoss is updated in place and kept.  N is the number of
\* rows of the (N, T) label, here the one row u.label.
loss_backward(u) ==
    IF u.label = None
    THEN [unit |-> u, out |-> [err |-> "AttributeError"]]
    ELSE IF u.dLoss = None
    THEN [unit |-> u,
          out  |-> [err |-> "ValueError: No forward function called before for this module!"]]
    ELSE LET N == Len(<<u.label>>)
             d == [r \in DOMAIN u.dLoss |->
                     [c \in DOMAIN u.dLoss[r] |->
                        LET g == u.dLoss[r][c] - (IF c = u.label[r] + 1 THEN 1 ELSE 0)
                        IN  (IF u.dim_average THEN g \div N ELSE g) * u.mask[r]]]
         IN  [unit |-> [u EXCEPT !.dLoss = d], out |-> [err |-> "", dLoss |-> d]]

\* ------------------------------------------------------ the RNN container
\* Before RNN(...) returns there is no container.
NoNet ==
    [built |-> FALSE, params |-> <<>>, grads |-> <<>>, paramName2Indices |-> <<>>,
     layer_names |-> {}, err |-> ""]

\* d with the entries of e written over it, as d[n] = e[n] for n in e does.
Update(d, e) == e @@ d

\* RNN_init_layer recording the position 1-based.
RNN_init_layer_one_based(st, layer, layer_cnt) ==
    LET kept == {n \in DOMAIN layer.params : layer.params[n] # None}
        reg  == [st EXCEPT
                   !.params = Update(@, [n \in kept |-> layer.params[n]]),
                   !.paramName2Indices = Update(@, [n \in kept |-> layer_cnt + 1]),
                   !.grads = Update(@, layer.grads)]
    IN  IF layer.name \in st.layer_names
        THEN [reg EXCEPT !.err = "ValueError: Existing name"]
        ELSE [reg EXCEPT !.layer_names = @ \cup {layer.name}]

\* One round of the constructor's loop for the layer at position layer_cnt
\* (0-based): its non-None params and all its grads are registered first, the
\* name is tested afterwards.
RNN_init_layer(st, layer, layer_cnt) ==
    LET kept == {n \in DOMAIN layer.params : layer.params[n] # None}
        reg  == [st EXCEPT
                   !.params = Update(@, [n \in kept |-> layer.params[n]]),
                   !.paramName2Indices = Update(@, [n \in kept |-> layer_cnt]),
                   !.grads = Update(@, layer.grads)]
    IN  IF layer.name \in st.layer_names
        THEN [reg EXCEPT !.err = "ValueError: Existing name"]
        ELSE [reg EXCEPT !.layer_names = @ \cup {layer.name}]

RECURSIVE RNN_init_loop(_, _, _)
RNN_init_loop(st, args, i) ==
    IF i > Len(args) \/ st.err # "" THEN st
    ELSE RNN_init_loop(RNN_init_layer(st, args[i], i - 1), args, i + 1)

\* RNN(*args): the container, or the ValueError raised out of the constructor.
RNN_init(args) ==
    LET st == RNN_init_loop(NoNet, args, 1)
    IN  IF st.err # "" THEN [NoNet EXCEPT !.err = st.err]
        ELSE [st EXCEPT !.built = TRUE]

\* assign(name, val): written into the owning layer's params only.
assign(ls, nt, name, val) ==
    IF name \notin DOMAIN nt.paramName2Indices
    THEN [layers |-> ls, err |-> "KeyError"]
    ELSE LET layer_cnt == nt.paramName2Indices[name]
         IN  [layers |-> [ls EXCEPT ![layer_cnt + 1].params = Update(@, name :> val)],
              err    |-> ""]

\* assign_grads(name, val): written into the owning layer's grads only.
assign_grads(ls, nt, name, val) ==
    IF name \notin DOMAIN nt.paramName2Indices
    THEN [layers |-> ls, err |-> "KeyError"]
    ELSE LET layer_cnt == nt.paramName2Indices[name]
         IN  [layers |-> [ls EXCEPT ![layer_cnt + 1].grads = Update(@, name :> val)],
              err    |-> ""]

\* get_params(name) / get_grads(name): a lookup in the container's own dicts.
get_params(nt, name) ==
    IF name \in DOMAIN nt.params THEN [err |-> "", value |-> nt.params[name]]
    ELSE [err |-> "KeyError", value |-> None]

get_grads(nt, name) ==
    IF name \in DOMAIN nt.grads THEN [err |-> "", value |-> nt.grads[name]]
    ELSE [err |-> "KeyError", value |-> None]

\* gather_params skipping the None entries, as the constructor does.
RECURSIVE gather_params_skipping_none(_, _, _)
gather_params_skipping_none(d, ls, i) ==
    IF i > Len(ls) THEN d
    ELSE gather_params_skipping_none(
            Update(d, [n \in {m \in DOMAIN ls[i].params : ls[i].params[m] # None}
                          |-> ls[i].params[n]]), ls, i + 1)

\* gather_params(): every entry of every layer's params, None included.
RECURSIVE gather_params(_, _, _)
gather_params(d, ls, i) ==
    IF i > Len(ls) THEN d ELSE gather_params(Update(d, ls[i].params), ls, i + 1)

RECURSIVE gather_grads(_, _, _)
gather_grads(d, ls, i) ==
    IF i > Len(ls) THEN d ELSE gather_grads(Update(d, ls[i].grads), ls, i + 1)

\* load_layer as layer.params[n] = pretrained.get(n): a missing key gives None.
load_layer_get(layer, pretrained) ==
    IF "params" \notin DOMAIN layer THEN layer
    ELSE [layer EXCEPT !.params =
            [n \in DOMAIN @ |-> IF n \in DOMAIN pretrained THEN pretrained[n] ELSE None]]

\* load(pretrained), for one layer: hasattr(layer, "params"), then every
\* name of the layer that is a key of pretrained gets pretrained[name].copy().
load_layer(layer, pretrained) ==
    IF "params" \notin DOMAIN layer THEN layer
    ELSE [layer EXCEPT !.params =
            [n \in DOMAIN @ |-> IF n \in DOMAIN pretrained THEN pretrained[n] ELSE @[n]]]

load(ls, pretrained) == [i \in DOMAIN ls |-> load_layer(ls[i], pretrained)]

\* ------------------------------------------------ forward/backward by kind
layer_forward(l, x, h0) ==
    CASE l.kind = "VanillaRNN"     -> rnn_forward(l, x, h0)
      [] l.kind = "LSTM"           -> lstm_forward(l, x, h0)
      [] l.kind = "word_embedding" -> we_forward(l, x)
      [] l.kind = "temporal_fc"    -> fc_forward(l, x)

layer_backward(l, dout) ==
    CASE l.kind = "VanillaRNN"     -> rnn_backward(l, dout)
      [] l.kind = "LSTM"           -> lstm_backward(l, dout)
      [] l.kind = "word_embedding" -> we_backward(l, dout)
      [] l.kind = "temporal_fc"    -> fc_backward(l, dout)

\* ----------------------------------------------------------------- inputs
\* All time series of 1..MaxT values of S.
Series(S) == UNION {[1..T -> S] : T \in 1..MaxT}

\* Layer names, and the values np.random.randn may give a weight.
Names == {"a", "b"}
Weights == {-1, 1}
\* The four gate columns of a randomly initialised LSTM weight.
GateWeights == {<<1, 1, 1, 1>>, <<1, -1, 1, 1>>, <<-1, 1, 1, 1>>}

LayersOf(names, W, GW, vocs) ==
    {VanillaRNN(n, wx, wh) : n \in names, wx \in W, wh \in W}
        \cup {LSTM(n, wx, wh) : n \in names, wx \in GW, wh \in GW}
        \cup {word_embedding(n, t) : n \in names, t \in UNION {[1..V -> W] : V \in vocs}}
        \cup {temporal_fc(n, w) : n \in names, w \in W}

\* What a caller feeds a layer: features, upstream gradients, initial states.
XVals == {0, 1}
DVals == {1, 2}
H0Vals == {0, 1}

IsRecurrent(l) == l.kind \in {"VanillaRNN", "LSTM"}

XsFor(l) ==
    IF l.kind = "word_embedding" /\ l.params[w_name(l)] # None
    THEN Series(0..(Len(l.params[w_name(l)]) - 1))
    ELSE Series(XVals)

H0sFor(l) == IF IsRecurrent(l) THEN H0Vals ELSE {0}

\* The number of timesteps the stored meta covers (0: none).
MetaT(l) ==
    IF l.meta.isNone \/ l.meta.v = <<>> THEN 0
    ELSE IF IsRecurrent(l) THEN Len(l.meta.v)
    ELSE IF l.kind = "word_embedding" THEN Len(l.meta.v[2])
    ELSE Len(l.meta.v[1])

\* Upstream gradients of the shape the last forward produced, when there is one.
DoutsFor(l) == {d \in Series(DVals) : MetaT(l) = 0 \/ Len(d) = MetaT(l)}

HasParams(l) == \A n \in DOMAIN l.params : l.params[n] # None

\* ----------------------------------------------------------------- actions
\* layers[i].forward(x, h0)
Forward(i, x, h0) ==
    /\ HasParams(layers[i])
    /\ LET r == layer_forward(layers[i], x, h0)
       IN  /\ layers' = [layers EXCEPT ![i] = r.layer]
           /\ ret' = [op |-> "forward", layer |-> i, x |-> x, h0 |-> h0, out |-> r.out]
    /\ nops' = nops + 1
    /\ UNCHANGED <<net, loss>>

\* layers[i].backward(dout)
Backward(i, dout) ==
    /\ HasParams(layers[i])
    /\ LET r == layer_backward(layers[i], dout)
       IN  /\ layers' = [layers EXCEPT ![i] = r.layer]
           /\ ret' = [op |-> "backward", layer |-> i, dout |-> dout, out |-> r.out]
    /\ nops' = nops + 1
    /\ UNCHANGED <<net, loss>>

\* loss.forward(feat, label, mask)
LossForward(feat, label, mask) ==
    /\ LET r == loss_forward(loss, feat, label, mask)
       IN  /\ loss' = r.unit
           /\ ret' = [op |-> "loss_forward", out |-> r.out]
    /\ nops' = nops + 1
    /\ UNCHANGED <<layers, net>>

\* loss.backward()
LossBackward ==
    /\ LET r == loss_backward(loss)
       IN  /\ loss' = r.unit
           /\ ret' = [op |-> "loss_backward", out |-> r.out]
    /\ nops' = nops + 1
    /\ UNCHANGED <<layers, net>>

\* net = RNN(*layers)
Construct ==
    /\ ~net.built /\ net.err = ""
    /\ net' = RNN_init(layers)
    /\ ret' = [op |-> "RNN", out |-> [err |-> net'.err]]
    /\ UNCHANGED <<layers, loss, nops>>

\* net.assign(name, val)
Assign(name, val) ==
    /\ net.built
    /\ LET r == assign(layers, net, name, val)
       IN  /\ layers' = r.layers
           /\ ret' = [op |-> "assign", name |-> name, val |-> val, out |-> [err |-> r.err]]
    /\ nops' = nops + 1
    /\ UNCHANGED <<net, loss>>

\* net.assign_grads(name, val)
AssignGrads(name, val) ==
    /\ net.built
    /\ LET r == assign_grads(layers, net, name, val)
       IN  /\ layers' = r.layers
           /\ ret' = [op |-> "assign_grads", name |-> name, val |-> val,
                      out |-> [err |-> r.err]]
    /\ nops' = nops + 1
    /\ UNCHANGED <<net, loss>>

\* net.gather_params()
GatherParams ==
    /\ net.built
    /\ net' = [net EXCEPT !.params = gather_params(@, layers, 1)]
    /\ ret' = [op |-> "gather_params", out |-> [err |-> ""]]
    /\ UNCHANGED <<layers, loss, nops>>

\* net.gather_grads()
GatherGrads ==
    /\ net.built
    /\ net' = [net EXCEPT !.grads = gather_grads(@, layers, 1)]
    /\ ret' = [op |-> "gather_grads", out |-> [err |-> ""]]
    /\ UNCHANGED <<layers, loss, nops>>

\* net.load(pretrained)
Load(pretrained) ==
    /\ net.built
    /\ layers' = load(layers, pretrained)
    /\ ret' = [op |-> "load", pretrained |-> pretrained, out |-> [err |-> ""]]
    /\ nops' = nops + 1
    /\ UNCHANGED <<net, loss>>

\* A caller's own layers[i].params[name] = val (val may be None).
SetParam(i, name, val) ==
    /\ layers' = [layers EXCEPT ![i].params[name] = val]
    /\ ret' = [op |-> "set_param", layer |-> i, name |-> name, val |-> val,
               out |-> [err |-> ""]]
    /\ nops' = nops + 1
    /\ UNCHANGED <<net, loss>>

\* A caller's own layers[i].grads[name] = val.
SetGrad(i, name, val) ==
    /\ layers' = [layers EXCEPT ![i].grads[name] = val]
    /\ ret' = [op |-> "set_grad", layer |-> i, name |-> name, val |-> val,
               out |-> [err |-> ""]]
    /\ nops' = nops + 1
    /\ UNCHANGED <<net, loss>>

\* ------------------------------------------- one layer, driven by a caller
InitLayer ==
    /\ layers \in {<<l>> : l \in LayersOf({"a"}, Weights, GateWeights, 1..MaxVoc)}
    /\ net = NoNet
    /\ loss = temporal_softmax_loss(TRUE)
    /\ ret = [op |-> "init"]
    /\ nops = 0

NextLayer ==
    \/ \E x \in XsFor(layers[1]), h0 \in H0sFor(layers[1]) :
          nops < MaxCalls /\ Forward(1, x, h0)
    \/ \E dout \in DoutsFor(layers[1]) : nops < MaxCalls /\ Backward(1, dout)

SpecLayer == InitLayer /\ [][NextLayer]_vars

\* --------------------------------------- the container, driven by a caller
\* The layers a container is built from.  The container reads a layer's name,
\* params and grads only, so the weights are all drawn as 1 and the LSTM, whose
\* three names are the VanillaRNN's, is left to SpecLayer.
NetKinds == {"VanillaRNN", "word_embedding", "temporal_fc"}
NetLayers == {l \in LayersOf(Names, {1}, {<<1, 1, 1, 1>>}, {MaxVoc}) : l.kind \in NetKinds}

\* The number of entries of a layer's tensors (its params all have the same).
TensorLen(l) ==
    CASE l.kind = "LSTM" -> 4
      [] l.kind = "word_embedding" -> l.voc_dim
      [] OTHER -> 1

Fill(l, c) == [k \in 1..TensorLen(l) |-> c]

\* The values a caller assigns, writes directly, and loads.
AssignVals == {2}
SetVals == {3}
LoadVals == {4}

ParamNames == UNION {DOMAIN layers[i].params : i \in DOMAIN layers}

Owner(name) == CHOOSE i \in DOMAIN layers : name \in DOMAIN layers[i].params

\* A tensor for name of the shape its layer expects; "other_w" is no layer's.
TensorFor(name, c) ==
    IF name \in ParamNames THEN Fill(layers[Owner(name)], c) ELSE <<c>>

\* The pretrained mappings: empty, one name of a layer or a foreign name, or
\* every name of the layers.
Pretrained ==
    {[n \in D |-> TensorFor(n, c)] :
        D \in {{}, ParamNames} \cup {{n} : n \in ParamNames \cup {"other_w"}},
        c \in LoadVals}

\* Layer names are interchangeable: the first layer is the one named "a".
InitNet ==
    /\ layers \in {c \in UNION {[1..k -> NetLayers] : k \in 1..MaxLayers} : c[1].name = "a"}
    /\ net = NoNet
    /\ loss = temporal_softmax_loss(TRUE)
    /\ ret = [op |-> "init"]
    /\ nops = 0

NetAssign ==
    \E name \in ParamNames \cup {"other_w"}, c \in AssignVals :
        nops < MaxOps /\ Assign(name, TensorFor(name, c))

NetAssignGrads ==
    \E name \in ParamNames \cup {"other_w"}, c \in AssignVals :
        nops < MaxOps /\ AssignGrads(name, TensorFor(name, c))

NetLoad == \E pretrained \in Pretrained : nops < MaxOps /\ Load(pretrained)

\* Before the container is built the caller's only write is a None.
NetSetParam ==
    \E i \in DOMAIN layers : \E name \in DOMAIN layers[i].params :
        \E val \in {None} \cup {Fill(layers[i], c) : c \in SetVals} :
            nops < MaxOps /\ (net.built \/ val = None) /\ SetParam(i, name, val)

NetSetGrad ==
    \E i \in DOMAIN layers : \E name \in DOMAIN layers[i].grads, c \in SetVals :
        nops < MaxOps /\ net.built /\ SetGrad(i, name, Fill(layers[i], c))

NetForward ==
    \E i \in DOMAIN layers :
        nops < MaxOps /\ net.built /\ Forward(i, [t \in 1..MaxT |-> 0], 0)

NetBackward ==
    \E i \in DOMAIN layers :
        nops < MaxOps /\ net.built /\ Backward(i, [t \in 1..MaxT |-> 1])

NextNet ==
    \/ Construct
    \/ NetAssign
    \/ NetAssignGrads
    \/ GatherParams
    \/ GatherGrads
    \/ NetLoad
    \/ NetSetParam
    \/ NetSetGrad
    \/ NetForward
    \/ NetBackward

SpecNet == InitNet /\ [][NextNet]_vars

\* The container's and the layers' own calls only: no direct writes, no gather.
NextApi ==
    \/ Construct
    \/ NetAssign
    \/ NetAssignGrads
    \/ NetLoad
    \/ NetForward
    \/ NetBackward

SpecApi == InitNet /\ [][NextApi]_vars

\* ------------------------------------------ the loss unit, driven by a caller
\* Scores of two classes, labels and 0/1 masks over the same T positions.
LossInputs ==
    UNION {[feat : [1..T -> [1..2 -> {0, 1}]], label : [1..T -> {0, 1}],
            mask : [1..T -> {0, 1}]] : T \in 1..MaxT}

InitLoss ==
    /\ layers = <<>>
    /\ net = NoNet
    /\ loss \in {temporal_softmax_loss(d) : d \in BOOLEAN}
    /\ ret = [op |-> "init"]
    /\ nops = 0

NextLoss ==
    \/ \E in \in LossInputs : nops < MaxCalls /\ LossForward(in.feat, in.label, in.mask)
    \/ nops < MaxCalls /\ LossBackward

SpecLoss == InitLoss /\ [][NextLoss]_vars

\* ---------------------------------------------------------------- claims
Registered == DOMAIN net.paramName2Indices

\* C1: after assign(n, v) on a registered name, with no call in between,
\* get_params(n) returns v.
C1_AssignThenGet ==
    (ret.op = "assign" /\ ret.out.err = "")
        => get_params(net, ret.name) = [err |-> "", value |-> ret.val]

\* C2: in every state reached by assign, assign_grads, load and the layers'
\* forward/backward calls, the container's params and grads entry of every
\* registered name is the value the owning layer stores under that name.
C2_RegistryInSync ==
    net.built =>
        \A n \in Registered :
            LET owner == layers[net.paramName2Indices[n] + 1]
            IN  net.params[n] = owner.params[n] /\ net.grads[n] = owner.grads[n]

DuplicateName == \E i, j \in DOMAIN layers : i # j /\ layers[i].name = layers[j].name

\* C3: the constructor fails with the duplicate-name error exactly when two
\* layers share a name; when it succeeds, the registered names are the names
\* of the layers' non-None params, each owned by one layer only, and
\* paramName2Indices gives the position of that layer.
C3_Construction ==
    ret.op = "RNN" =>
        /\ (ret.out.err = "ValueError: Existing name") <=> DuplicateName
        /\ net.built <=> ~DuplicateName
        /\ net.built =>
            /\ \A i \in DOMAIN layers : \A n \in DOMAIN layers[i].params :
                  layers[i].params[n] # None =>
                      /\ n \in DOMAIN net.params /\ n \in Registered
                      /\ net.paramName2Indices[n] = i - 1
                      /\ \A j \in DOMAIN layers : n \in DOMAIN layers[j].params => j = i
            /\ \A n \in Registered : \E i \in DOMAIN layers :
                  n \in DOMAIN layers[i].params /\ layers[i].params[n] # None
            /\ DOMAIN net.params = Registered

W_C3_BuiltFromTwo ==
    /\ ret.op = "RNN" /\ net.built /\ Len(layers) = 2
    /\ \E n \in DOMAIN layers[2].params : layers[2].params[n] = None
    /\ \E n \in Registered : net.paramName2Indices[n] = 1

\* C4: load(P) gives every layer parameter whose name is a key of P the value
\* of P under that name and leaves every other parameter, every gradient, the
\* layers' meta and the whole container (the name-to-layer index included)
\* as they were, without an error.
C4_LoadFrame ==
    [][(ret'.op = "load" /\ nops' = nops + 1) =>
          /\ ret'.out.err = ""
          /\ net' = net
          /\ DOMAIN layers' = DOMAIN layers
          /\ \A i \in DOMAIN layers :
                /\ DOMAIN layers'[i].params = DOMAIN layers[i].params
                /\ \A n \in DOMAIN layers[i].params :
                      layers'[i].params[n] =
                          IF n \in DOMAIN ret'.pretrained THEN ret'.pretrained[n]
                          ELSE layers[i].params[n]
                /\ layers'[i].grads = layers[i].grads
                /\ layers'[i].meta = layers[i].meta
                /\ layers'[i].name = layers[i].name]_vars

W_C4_PartialLoad ==
    /\ ret.op = "load" /\ Len(layers) = 2
    /\ \E n \in ParamNames : n \in DOMAIN ret.pretrained
            /\ layers[Owner(n)].params[n] = ret.pretrained[n]
    /\ \E m \in ParamNames : m \notin DOMAIN ret.pretrained
            /\ layers[Owner(m)].params[m] # None /\ layers[Owner(m)].params[m][1] = 2

\* C5: temporal_softmax_loss.backward() with no forward in the current cycle
\* (none since construction or since the previous backward) fails with the
\* module's own "No forward function called before for this module!" error.
C5_MissingForward ==
    [][(ret'.op = "loss_backward" /\ nops' = nops + 1 /\ ret.op # "loss_forward") =>
          ret'.out.err = "ValueError: No forward function called before for this module!"]_vars

\* C6: after a backward that returned, the layer's meta no longer holds the
\* forward pass's intermediates.
C6_MetaOneShot ==
    (ret.op = "backward" /\ ret.out.err = "") => MetaT(layers[1]) = 0

\* The gradients one backward call owes: the sum over the timesteps of the
\* per-timestep contributions (for the two recurrent layers, of what the T
\* step_backward calls returned).
RECURSIVE SumOver(_, _)
SumOver(S, f) ==
    IF S = {} THEN 0 ELSE LET k == CHOOSE k \in S : TRUE IN f[k] + SumOver(S \ {k}, f)

ScatterSum(x, dout, V) ==
    [v \in 1..V |-> SumOver({p \in DOMAIN x : x[p] = v - 1}, dout)]

OwedGrads(l, dout, out) ==
    CASE l.kind = "VanillaRNN" ->
            (wx_name(l) :> <<SumOver(DOMAIN out.calls, [k \in DOMAIN out.calls |-> out.calls[k].out.dWx])>>)
         @@ (wh_name(l) :> <<SumOver(DOMAIN out.calls, [k \in DOMAIN out.calls |-> out.calls[k].out.dWh])>>)
         @@ (b_name(l) :> <<SumOver(DOMAIN out.calls, [k \in DOMAIN out.calls |-> out.calls[k].out.db])>>)
      [] l.kind = "LSTM" ->
            (wx_name(l) :> [g \in 1..4 |-> SumOver(DOMAIN out.calls, [k \in DOMAIN out.calls |-> out.calls[k].out.dWx[g]])])
         @@ (wh_name(l) :> [g \in 1..4 |-> SumOver(DOMAIN out.calls, [k \in DOMAIN out.calls |-> out.calls[k].out.dWh[g]])])
         @@ (b_name(l) :> [g \in 1..4 |-> SumOver(DOMAIN out.calls, [k \in DOMAIN out.calls |-> out.calls[k].out.db[g]])])
      [] l.kind = "word_embedding" ->
            (w_name(l) :> ScatterSum(l.meta.v[2], dout, Len(l.params[w_name(l)])))
      [] l.kind = "temporal_fc" ->
            (w_name(l) :> <<SumOver(DOMAIN dout, [t \in DOMAIN dout |-> dout[t] * l.meta.v[1][t]])>>)
         @@ (b_name(l) :> <<SumOver(DOMAIN dout, dout)>>)

C8_GatherResyncs ==
    /\ ret.op = "gather_params" =>
          \A i \in DOMAIN layers : \A n \in DOMAIN layers[i].params :
              get_params(net, n) = [err |-> "", value |-> layers[i].params[n]]
    /\ ret.op = "gather_grads" =>
          \A i \in DOMAIN layers : \A n \in DOMAIN layers[i].grads :
              get_grads(net, n) = [err |-> "", value |-> layers[i].grads[n]]

W_C8_GatherAfterWrites ==
    /\ ret.op = "gather_params" /\ Len(layers) = 2
    /\ \E n \in DOMAIN net.params : net.params[n] = None
    /\ \E n \in DOMAIN net.params : net.params[n] # None /\ net.params[n][1] > 1

\* C9: after word_embedding.backward(dout) the gradient row of every
\* vocabulary index v is the sum of dout over the positions where x is v
\* (repeats add up), and the zero row where v does not occur in x.
C9_ScatterAdd ==
    (ret.op = "backward" /\ ret.out.err = "" /\ layers[1].kind = "word_embedding") =>
        LET l == layers[1]
            x == l.meta.v[2]
            g == l.grads[w_name(l)]
        IN  /\ Len(g) = Len(l.params[w_name(l)])
            /\ \A v \in DOMAIN g :
                  /\ g[v] = SumOver({p \in DOMAIN x : x[p] = v - 1}, ret.dout)
                  /\ (\A p \in DOMAIN x : x[p] # v - 1) => g[v] = 0

W_C9_RepeatedIndex ==
    /\ ret.op = "backward" /\ ret.out.err = "" /\ layers[1].kind = "word_embedding"
    /\ layers[1].meta.v[2] = <<0, 0>>
    /\ layers[1].grads[w_name(layers[1])] = <<ret.dout[1] + ret.dout[2], 0>>

StepBackwardOf(l, c) ==
    IF l.kind = "LSTM" THEN lstm_step_backward(l, c.dnext_h, c.dnext_c, c.meta)
    ELSE rnn_step_backward(l, c.dnext_h, c.meta)

\* C10: VanillaRNN.backward and LSTM.backward call step_backward once per
\* timestep, T-1 first and 0 last, each with that timestep's stored meta; the
\* gradient passed at T-1 is dh[:, T-1, :], at t < T-1 it is dh[:, t, :] plus
\* the dprev_h the step at t+1 returned, dh0 is the dprev_h of the step at 0,
\* and the LSTM's dnext_c is zero at T-1 and the dprev_c of the step at t+1
\* afterwards.
C10_BackwardThreading ==
    [][(ret'.op = "backward" /\ nops' = nops + 1 /\ ret'.out.err = ""
            /\ IsRecurrent(layers[1])) =>
          LET l     == layers[1]
              dh    == ret'.dout
              T     == Len(dh)
              calls == ret'.out.calls
          IN  /\ Len(calls) = T
              /\ \A k \in 1..T :
                    LET t == T - k
                    IN  /\ calls[k].t = t
                        /\ calls[k].meta = l.meta.v[t + 1]
                        /\ calls[k].dnext_h =
                              IF k = 1 THEN dh[T]
                              ELSE dh[t + 1] + calls[k - 1].out.dprev_h
                        /\ l.kind = "LSTM" =>
                              calls[k].dnext_c =
                                  IF k = 1 THEN 0 ELSE calls[k - 1].out.dprev_c
                        /\ calls[k].out = StepBackwardOf(l, calls[k])
              /\ ret'.out.dh0 = calls[T].out.dprev_h]_vars

W_C10_GradientFlowsBack ==
    /\ ret.op = "backward" /\ ret.out.err = "" /\ IsRecurrent(layers[1])
    /\ Len(ret.out.calls) = 2
    /\ ret.out.calls[1].out.dprev_h # 0
    /\ ret.out.calls[2].dnext_h = ret.dout[1] + ret.out.calls[1].out.dprev_h

====
